---------------------------- MODULE Spec2Model ----------------------------
(***************************************************************************)
(* A model of conda/gateways/connection/adapters/sftp.py: the SFTPAdapter  *)
(* transport adapter (send and its handlers), build_response and the       *)
(* status-code extractor get_status_code_from_code_response.               *)
(*                                                                         *)
(* Python strings are modelled as sequences of one-character strings, so   *)
(* that splitting, slicing and int() are computed, not assumed.            *)
(***************************************************************************)
EXTENDS Integers, Sequences, FiniteSets, TLC

VARIABLES
    conn,       \* conn[a]: the adapter field self.conn (the connection id, or None)
    conns,      \* conns[c]: the state of the session object c (pysftp.Connection)
    adapterOf,  \* adapterOf[t]: the adapter instance caller t calls send on
    call,       \* call[t]: the stack frame of caller t (position, locals, outcome)
    code,       \* the status text handed to the extractor by a direct caller
    ext         \* the outcome of that direct extractor call

vars == <<conn, conns, adapterOf, call, code, ext>>

None == "None"

\* None where a Response is expected (fields of one record type throughout).
NoResponse ==
    [id |-> None, encoding |-> None, raw |-> None, url |-> <<>>,
     request |-> None, status_code |-> <<>>]

-----------------------------------------------------------------------------
(* Bounds of the model.                                                    *)

\* Longest status text enumerated exhaustively over Alphabet.
MaxLen == 4

\* Longest remote file (in bytes) the session layer serves.
MaxFileLen == 2

\* Longest status text a direct caller of build_response enumerates.
MaxCodeLen == 2

-----------------------------------------------------------------------------
(* Python str and int() semantics used by the extractor.                   *)

\* str.isspace() for the ASCII characters (str.split() and int() strip these).
IsSpace(c) == c \in {" ", "\n", "\t", "\r", "\f"}

DigitVal == ("0" :> 0) @@ ("1" :> 1) @@ ("2" :> 2) @@ ("3" :> 3) @@ ("4" :> 4)
            @@ ("5" :> 5) @@ ("6" :> 6) @@ ("7" :> 7) @@ ("8" :> 8) @@ ("9" :> 9)

IsDigit(c) == c \in DOMAIN DigitVal

\* s[:n]
Take(s, n) == SubSeq(s, 1, IF n < Len(s) THEN n ELSE Len(s))

\* s[1:]
Drop1(s) == SubSeq(s, 2, Len(s))

RECURSIVE LStrip(_)
LStrip(s) == IF s # <<>> /\ IsSpace(s[1]) THEN LStrip(Tail(s)) ELSE s

RECURSIVE RStrip(_)
RStrip(s) == IF s # <<>> /\ IsSpace(s[Len(s)]) THEN RStrip(SubSeq(s, 1, Len(s) - 1)) ELSE s

\* str.strip()
Strip(s) == RStrip(LStrip(s))

\* The digits part of a base-10 literal: digits, single underscores between digits.
IsDigitString(b) ==
    /\ b # <<>>
    /\ \A i \in 1..Len(b) :
          \/ IsDigit(b[i])
          \/ /\ b[i] = "_"
             /\ i > 1 /\ i < Len(b)
             /\ IsDigit(b[i - 1]) /\ IsDigit(b[i + 1])

HasSign(s) == s # <<>> /\ s[1] \in {"+", "-"}

Unsigned(s) == IF HasSign(s) THEN Tail(s) ELSE s

\* int(s) accepts s: surrounding whitespace, an optional sign, a digit string.
IsIntLiteral(s) == IsDigitString(Unsigned(Strip(s)))

RECURSIVE DigitsValue(_, _)
DigitsValue(b, acc) ==
    IF b = <<>> THEN acc
    ELSE IF b[1] = "_" THEN DigitsValue(Tail(b), acc)
    ELSE DigitsValue(Tail(b), 10 * acc + DigitVal[b[1]])

\* The value of int(s) when IsIntLiteral(s).
IntValue(s) ==
    LET t == Strip(s)
        v == DigitsValue(Unsigned(t), 0)
    IN  IF HasSign(t) /\ t[1] = "-" THEN 0 - v ELSE v

\* The index of the first sep in s, or 0.
RECURSIVE IndexOf(_, _, _)
IndexOf(s, sep, i) ==
    IF i > Len(s) THEN 0
    ELSE IF s[i] = sep THEN i
    ELSE IndexOf(s, sep, i + 1)

\* s.split(sep) for a one-character sep: empty pieces are kept.
RECURSIVE SplitOn(_, _)
SplitOn(s, sep) ==
    LET k == IndexOf(s, sep, 1)
    IN  IF k = 0 THEN <<s>>
        ELSE <<SubSeq(s, 1, k - 1)>> \o SplitOn(SubSeq(s, k + 1, Len(s)), sep)

\* The length of the longest prefix of s without whitespace.
RECURSIVE WordLen(_)
WordLen(s) == IF s = <<>> \/ IsSpace(s[1]) THEN 0 ELSE 1 + WordLen(Tail(s))

\* s.split(): runs of whitespace separate the tokens, no empty tokens.
RECURSIVE SplitWS(_)
SplitWS(s) ==
    LET t == LStrip(s)
        n == WordLen(t)
    IN  IF t = <<>> THEN <<>>
        ELSE <<SubSeq(t, 1, n)>> \o SplitWS(SubSeq(t, n + 1, Len(t)))

\* [x for x in xs if x]
NonEmpty(xs) == SelectSeq(xs, LAMBDA x : x # <<>>)

-----------------------------------------------------------------------------
(* get_status_code_from_code_response                                      *)

Raised(kind) == [kind |-> kind, value |-> 0, warnings |-> 0]

\* The variant of the extractor that trusts the three-character prefix.
PrefixStatusCode(text) ==
    LET lines == NonEmpty(SplitOn(text, "\n"))
        toks == IF lines = <<>> THEN <<>> ELSE SplitWS(lines[Len(lines)])
    IN  IF lines = <<>> \/ toks = <<>> THEN Raised("IndexError")
        ELSE IF ~IsIntLiteral(toks[1]) \/ ~IsIntLiteral(Take(text, 3))
             THEN Raised("ValueError")
        ELSE [kind |-> "ok", value |-> IntValue(Take(text, 3)),
              warnings |-> IF IntValue(toks[1]) # IntValue(Take(text, 3)) THEN 1 ELSE 0]

\* The variant of the extractor that insists on three characters of text.
StrictStatusCode(text) ==
    LET lines == NonEmpty(SplitOn(text, "\n"))
        toks == IF lines = <<>> THEN <<>> ELSE SplitWS(lines[Len(lines)])
    IN  IF lines = <<>> \/ toks = <<>> THEN Raised("IndexError")
        ELSE IF ~IsIntLiteral(toks[1]) \/ ~IsIntLiteral(Take(text, 3)) \/ Len(text) < 3
             THEN Raised("ValueError")
        ELSE [kind |-> "ok", value |-> IntValue(toks[1]),
              warnings |-> IF IntValue(toks[1]) # IntValue(Take(text, 3)) THEN 1 ELSE 0]

\* kind: "ok" with the value returned and the number of warnings logged, or the
\* exception that propagates, in the order the three statements raise it.
get_status_code_from_code_response(text) ==
    LET lines == NonEmpty(SplitOn(text, "\n"))
        \* [...][-1] raises IndexError on an empty list
        last_valid_line_from_code == lines[Len(lines)]
        toks == IF lines = <<>> THEN <<>> ELSE SplitWS(last_valid_line_from_code)
        status_code_from_last_line == IntValue(toks[1])
        status_code_from_first_digits == IntValue(Take(text, 3))
    IN  IF lines = <<>> THEN Raised("IndexError")
        ELSE IF toks = <<>> THEN Raised("IndexError")
        ELSE IF ~IsIntLiteral(toks[1]) THEN Raised("ValueError")
        ELSE IF ~IsIntLiteral(Take(text, 3)) THEN Raised("ValueError")
        ELSE [kind |-> "ok",
              value |-> status_code_from_last_line,
              warnings |-> IF status_code_from_last_line # status_code_from_first_digits
                           THEN 1 ELSE 0]

-----------------------------------------------------------------------------
(* Status texts a direct caller of the extractor supplies.                 *)

Alphabet == {"2", "6", " ", "\n", "-", "_", "x"}

\* The texts of n characters.
TextsOfLen(n) == [1..n -> Alphabet]

\* The examples of the docstring (lines 134-138).
Welcome200 == <<"2","0","0"," ","W","e","l","c","o","m","e">>

MultiLine226 ==
    <<"2","2","6","-","F","i","l","e","\n","2","2","6"," ","0",".","0">>

MultiLineConflict ==
    <<"2","0","0","-","F","i","l","e","\n","2","2","6"," ","0",".","0">>

Code226 == <<"2","2","6">>

Texts ==
    UNION {TextsOfLen(n) : n \in 0..MaxLen}
        \cup {Welcome200, MultiLine226, MultiLineConflict, Code226}

-----------------------------------------------------------------------------
(* The adapter, its callers and the session layer.                         *)

\* Caller-managed threads, each making one send call, and the adapter instances.
Callers == {"t1", "t2"}

Adapters == {"a1", "a2"}

\* request.method values a caller may pass: the five keys and two that are not.
Methods == {"LIST", "RETR", "GET", "STOR", "NLST", "retr", "HEAD"}

\* parsed.path values: absent, relative, one and two leading separators.
UrlPaths == {<<>>, <<"a">>, <<"/", "a">>, <<"/", "/", "a">>}

\* self.func_table
func_table ==
    [m \in {"LIST", "RETR", "STOR", "NLST", "GET"} |->
        CASE m = "LIST" -> "list"
          [] m = "RETR" -> "retr"
          [] m = "STOR" -> "stor"
          [] m = "NLST" -> "nlst"
          [] m = "GET"  -> "retr"]

\* Contents of the remote file a fetch streams into the buffer.
RECURSIVE FilesOfLen(_)
FilesOfLen(n) ==
    IF n = 0 THEN {<<>>} ELSE {Append(b, 7) : b \in FilesOfLen(n - 1)}

RemoteFiles == UNION {FilesOfLen(n) : n \in 0..MaxFileLen}

\* The callables a request may register under hooks['response'].
HookKinds == {"none", "keep", "replace", "read", "raise_os", "raise_other"}

\* BytesIO()
NewStream == [buf |-> <<>>, pos |-> 0]

NoConn == [opened |-> FALSE, closes |-> 0, fetches |-> 0, staleFetches |-> 0]

IdleFrame ==
    [pc |-> "idle", caller |-> None, method |-> None, url |-> <<>>, path |-> <<>>,
     mine |-> None, handlers |-> <<>>, forwarded |-> <<>>,
     getfo |-> None, fetched |-> None, closed |-> None,
     data |-> NewStream, fetchedBytes |-> <<>>, code |-> <<>>, encoding |-> None,
     response |-> NoResponse, hooks |-> None, hookSaw |-> <<>>, hooked |-> NoResponse,
     trace |-> <<>>, warnings |-> 0,
     warns |-> 0, outcome |-> "running", result |-> NoResponse, message |-> <<>>]

\* Lines 48-49: if path[0] == '/': path = path[1:]  (path is not empty here).
StripLeadingSlash(path) == IF path[1] = "/" THEN Drop1(path) ELSE path

\* The frame once an exception leaves send (or a direct call).
Raise(f, exc, msg) == [f EXCEPT !.pc = "done", !.outcome = exc, !.message = msg]

\* The frame once a value is returned to the caller.
Return(f, value) == [f EXCEPT !.pc = "done", !.outcome = "returned", !.result = value]

\* Lines 44-49: path[0] of an empty path raises IndexError before any connection.
Parse(f, method, url) ==
    IF url = <<>>
    THEN Raise([f EXCEPT !.caller = "send", !.method = method, !.url = url],
               "IndexError", <<>>)
    ELSE [f EXCEPT !.caller = "send", !.method = method, !.url = url,
                   !.path = StripLeadingSlash(url), !.pc = "connect"]

\* Another send is in progress on adapter a.
Busy(a) == \E u \in Callers : adapterOf[u] = a /\ call[u].pc \notin {"idle", "done"}

\* send, lines 44-49: caller t hands a request to its adapter.
SendBegin(t) ==
    /\ call[t].pc = "idle"
    /\ \E method \in Methods, url \in UrlPaths :
          call' = [call EXCEPT ![t] = Parse(call[t], method, url)]
    /\ UNCHANGED <<conn, conns, adapterOf, code, ext>>

\* A caller that serializes its calls per adapter instance.
SerialSend(t) == ~Busy(adapterOf[t]) /\ SendBegin(t)

\* The field a new connection is stored in, were it shared by all instances.
ClassLevelConn(t) == [a \in Adapters |-> t]

\* Line 53: self.conn = ... stores the connection in the caller's own adapter.
StoreConn(t) == [conn EXCEPT ![adapterOf[t]] = t]

\* send, lines 51-53: the session layer opens a connection, or raises.
Connect(t) ==
    /\ call[t].pc = "connect"
    /\ \E ok \in BOOLEAN :
          IF ok
          THEN /\ conns' = [conns EXCEPT ![t].opened = TRUE]
               /\ conn' = StoreConn(t)
               /\ call' = [call EXCEPT ![t].mine = t, ![t].pc = "dispatch"]
          ELSE /\ call' = [call EXCEPT ![t] = Raise(call[t], "ConnectionError", <<>>)]
               /\ UNCHANGED <<conn, conns>>
    /\ UNCHANGED <<adapterOf, code, ext>>

\* Line 56: self.func_table[request.method](path, request)
Lookup(f) ==
    IF f.method \in DOMAIN func_table
    THEN [f EXCEPT !.handlers = Append(f.handlers, func_table[f.method]),
                   !.forwarded = <<f.path>>, !.pc = func_table[f.method]]
    ELSE Raise(f, "KeyError", <<f.method>>)

Dispatch(t) ==
    /\ call[t].pc = "dispatch"
    /\ call' = [call EXCEPT ![t] = Lookup(call[t])]
    /\ UNCHANGED <<conn, conns, adapterOf, code, ext>>

\* Lines 68, 92, 96: raise SystemExit("<VERB> not implemented yet")
Stub(f, verb) == Raise(f, "SystemExit", <<verb, "not implemented yet">>)

\* list, stor, nlst
Unimplemented(t) ==
    /\ call[t].pc \in {"list", "stor", "nlst"}
    /\ call' = [call EXCEPT ![t] =
                   Stub(call[t], CASE call[t].pc = "list" -> "LIST"
                                   [] call[t].pc = "stor" -> "STOR"
                                   [] call[t].pc = "nlst" -> "NLST")]
    /\ UNCHANGED <<conn, conns, adapterOf, code, ext>>

\* retr, lines 72-76: data = BytesIO()
RetrBegin(t) ==
    /\ call[t].pc = "retr"
    /\ call' = [call EXCEPT ![t].data = NewStream, ![t].pc = "getfo"]
    /\ UNCHANGED <<conn, conns, adapterOf, code, ext>>

\* The except clause of lines 81-83 re-raising instead of yielding None.
UnwindReraise(f, exc) == Raise(f, exc, <<>>)

\* An exception raised inside the try block of retr (or in a direct call of
\* build_response): lines 81-83 catch OSError/IOError, log and go on to close.
Unwind(f, exc) ==
    IF f.caller = "send" /\ exc = "OSError"
    THEN [f EXCEPT !.response = NoResponse, !.warns = @ + 1, !.pc = "close"]
    ELSE Raise(f, exc, <<>>)

\* What getfo can do on connection c: stream the whole file, fail with an
\* OS-level error after part of it, or fail with an error of the session
\* layer that is no OSError.  A closed connection serves nothing.
FetchOutcomes(c) ==
    IF conns[c].closes > 0 THEN {"OSError", "SSHException"}
    ELSE {"ok", "OSError", "SSHException"}

\* retr, lines 79-80: self.conn.getfo(path, data), then the call of
\* build_binary_response(request, data, "226") -> build_response(..., None).
RetrGetfo(t) ==
    /\ call[t].pc = "getfo"
    /\ LET c == conn[adapterOf[t]] IN
       \E o \in FetchOutcomes(c), file \in RemoteFiles, n \in 0..MaxFileLen :
          /\ n <= Len(file)
          /\ o = "ok" => n = Len(file)
          /\ conns' = [conns EXCEPT ![c].fetches = @ + 1,
                                    ![c].staleFetches = @ + (IF conns[c].closes > 0 THEN 1 ELSE 0)]
          /\ LET g == [call[t] EXCEPT !.fetched = c, !.getfo = o,
                                     !.fetchedBytes = Take(file, n),
                                     !.data = [buf |-> Take(file, n), pos |-> n]]
             IN  call' = [call EXCEPT ![t] =
                            IF o = "ok"
                            THEN [g EXCEPT !.code = Code226, !.encoding = None,
                                           !.pc = "br_new"]
                            ELSE Unwind(g, o)]
    /\ UNCHANGED <<conn, adapterOf, code, ext>>

\* retr without line 86.
ReturnWithoutClose(t) ==
    /\ call[t].pc = "close"
    /\ call' = [call EXCEPT ![t] = Return([call[t] EXCEPT !.closed = None], call[t].response)]
    /\ UNCHANGED <<conn, conns, adapterOf, code, ext>>

\* retr, lines 86-88 and send, line 59: self.conn.close(); return response
RetrClose(t) ==
    /\ call[t].pc = "close"
    /\ LET c == conn[adapterOf[t]] IN
          /\ conns' = [conns EXCEPT ![c].closes = @ + 1]
          /\ call' = [call EXCEPT ![t] = Return([call[t] EXCEPT !.closed = c], call[t].response)]
    /\ UNCHANGED <<conn, adapterOf, code, ext>>

-----------------------------------------------------------------------------
(* build_response, called by retr through build_binary_response with the  *)
(* text "226" and encoding None, or directly.                              *)

\* A response object some hook substitutes for the one it was given.
OtherResponse ==
    [id |-> "hooked", encoding |-> "utf-8", raw |-> "other", url |-> <<>>,
     request |-> None, status_code |-> <<200>>]

\* dispatch_hook('response', request.hooks, response): every registered callable
\* is called with the response; a value it returns replaces the response, an
\* exception it raises propagates.  A hook may also read the payload stream.
DispatchHook(kind, response, data) ==
    CASE kind = "none"        -> [raised |-> None, value |-> response, data |-> data]
      [] kind = "keep"        -> [raised |-> None, value |-> response, data |-> data]
      [] kind = "replace"     -> [raised |-> None, value |-> OtherResponse, data |-> data]
      [] kind = "read"        -> [raised |-> None, value |-> response,
                                  data |-> [data EXCEPT !.pos = Len(data.buf)]]
      [] kind = "raise_os"    -> [raised |-> "OSError", value |-> NoResponse, data |-> data]
      [] kind = "raise_other" -> [raised |-> "RuntimeError", value |-> NoResponse, data |-> data]

\* Lines 107-114: response = Response() and its fields.
BrNew(t) ==
    /\ call[t].pc = "br_new"
    /\ call' = [call EXCEPT
                  ![t].response = [id |-> "built", encoding |-> call[t].encoding,
                                   raw |-> "data", url |-> call[t].url,
                                   request |-> t, status_code |-> <<>>],
                  ![t].trace = Append(@, "new"),
                  ![t].pc = "br_status"]
    /\ UNCHANGED <<conn, conns, adapterOf, code, ext>>

\* Line 115 with the seek of line 118 left out.
ResolveStatusSkipSeek(f) ==
    LET r == get_status_code_from_code_response(f.code)
    IN  IF r.kind = "ok"
        THEN [f EXCEPT !.response.status_code = <<r.value>>, !.warnings = @ + r.warnings,
                       !.trace = Append(@, "status"), !.pc = "br_hook"]
        ELSE Unwind([f EXCEPT !.trace = Append(@, "status_raised")], r.kind)

\* Line 115: response.status_code = get_status_code_from_code_response(code)
ResolveStatus(f) ==
    LET r == get_status_code_from_code_response(f.code)
    IN  IF r.kind = "ok"
        THEN [f EXCEPT !.response.status_code = <<r.value>>, !.warnings = @ + r.warnings,
                       !.trace = Append(@, "status"), !.pc = "br_seek"]
        ELSE Unwind([f EXCEPT !.trace = Append(@, "status_raised")], r.kind)

BrStatus(t) ==
    /\ call[t].pc = "br_status"
    /\ call' = [call EXCEPT ![t] = ResolveStatus(call[t])]
    /\ UNCHANGED <<conn, conns, adapterOf, code, ext>>

\* Line 118 seeking to the end of the payload.
SeekEnd(data) == [data EXCEPT !.pos = Len(data.buf)]

\* Line 118: response.raw.seek(0)
SeekStart(data) == [data EXCEPT !.pos = 0]

BrSeek(t) ==
    /\ call[t].pc = "br_seek"
    /\ call' = [call EXCEPT ![t].data = SeekStart(@),
                            ![t].trace = Append(@, "seek"),
                            ![t].pc = "br_hook"]
    /\ UNCHANGED <<conn, conns, adapterOf, code, ext>>

\* Line 121: response = dispatch_hook('response', request.hooks, response).
\* request.hooks is first read here, so the request's hooks are drawn here.
BrHook(t) ==
    /\ call[t].pc = "br_hook"
    /\ \E kind \in HookKinds :
          LET f == call[t]
              h == DispatchHook(kind, f.response, f.data)
              g == [f EXCEPT !.hooks = kind,
                             !.hookSaw = <<[pos |-> f.data.pos,
                                            status_code |-> f.response.status_code]>>,
                             !.trace = Append(@, "hook"),
                             !.data = h.data]
          IN  call' = [call EXCEPT ![t] =
                         IF h.raised = None
                         THEN [g EXCEPT !.hooked = h.value, !.pc = "br_return"]
                         ELSE Unwind(g, h.raised)]
    /\ UNCHANGED <<conn, conns, adapterOf, code, ext>>

\* Lines 121-122: the value build_response returns.
BuiltResponse(f) == f.hooked

\* Line 122: return response, to retr (line 80) or to the direct caller.
BrReturn(t) ==
    /\ call[t].pc = "br_return"
    /\ call' = [call EXCEPT ![t] =
                   IF call[t].caller = "send"
                   THEN [call[t] EXCEPT !.response = BuiltResponse(call[t]), !.pc = "close"]
                   ELSE Return(call[t], BuiltResponse(call[t]))]
    /\ UNCHANGED <<conn, conns, adapterOf, code, ext>>

-----------------------------------------------------------------------------
(* Specifications.                                                         *)

Pending == [kind |-> "pending", value |-> 0, warnings |-> 0]

\* Adapters as constructed (__init__ sets no conn), no session, no call begun.
Quiescent ==
    /\ conn = [a \in Adapters |-> None]
    /\ conns = [c \in Callers |-> NoConn]
    /\ call = [t \in Callers |-> IdleFrame]

\* The two callers share one adapter instance or use one each.
Init ==
    /\ Quiescent
    /\ adapterOf \in {f \in [Callers -> Adapters] : f["t1"] = "a1"}
    /\ code = <<>>
    /\ ext = Pending

Step(t) ==
    \/ Connect(t)
    \/ Dispatch(t)
    \/ Unimplemented(t)
    \/ RetrBegin(t)
    \/ RetrGetfo(t)
    \/ BrNew(t)
    \/ BrStatus(t)
    \/ BrSeek(t)
    \/ BrHook(t)
    \/ BrReturn(t)
    \/ RetrClose(t)

\* Callers serialize their calls per adapter instance.
Next == \E t \in Callers : SerialSend(t) \/ Step(t)

Spec == Init /\ [][Next]_vars

\* Callers call send whenever they like.
NextConcurrent == \E t \in Callers : SendBegin(t) \/ Step(t)

SpecConcurrent == Init /\ [][NextConcurrent]_vars

\* A direct call of build_response(request, data, code, encoding) by t1.
Encodings == {None, "utf-8"}

BuildCodes ==
    UNION {TextsOfLen(n) : n \in 0..MaxCodeLen}
        \cup {Welcome200, MultiLine226, MultiLineConflict, Code226}

InitBuild ==
    /\ conn = [a \in Adapters |-> None]
    /\ conns = [c \in Callers |-> NoConn]
    /\ adapterOf = [t \in Callers |-> "a1"]
    /\ code = <<>>
    /\ ext = Pending
    /\ \E c \in BuildCodes, e \in Encodings, file \in RemoteFiles, p \in 0..MaxFileLen,
          u \in UrlPaths :
          /\ p <= Len(file)
          /\ call = [t \in Callers |->
                       IF t = "t1"
                       THEN [IdleFrame EXCEPT !.pc = "br_new", !.caller = "direct",
                                              !.code = c, !.encoding = e, !.url = u,
                                              !.data = [buf |-> file, pos |-> p]]
                       ELSE IdleFrame]

NextBuild ==
    \E t \in Callers : BrNew(t) \/ BrStatus(t) \/ BrSeek(t) \/ BrHook(t) \/ BrReturn(t)

SpecBuild == InitBuild /\ [][NextBuild]_vars

\* A direct call of get_status_code_from_code_response(code).
InitExtract ==
    /\ Quiescent
    /\ adapterOf = [t \in Callers |-> "a1"]
    /\ code \in Texts
    /\ ext = Pending

Extract ==
    /\ ext.kind = "pending"
    /\ ext' = get_status_code_from_code_response(code)
    /\ UNCHANGED <<conn, conns, adapterOf, call, code>>

NextExtract == Extract

SpecExtract == InitExtract /\ [][NextExtract]_vars

-----------------------------------------------------------------------------
(* Properties of send and its handlers.                                    *)

Done(t) == call[t].pc = "done"

Verbs == DOMAIN func_table

\* The caller got a value back from send (a Response or None).
Returned(t) == Done(t) /\ call[t].outcome = "returned"

\* C1, as stated: every connection that send opens for a method of the verb
\* table is used by exactly one handler invocation and has been closed by the
\* time send completes, whatever the outcome of the handler.
C1_ClosedOnEveryOutcome ==
    \A t \in Callers :
        (Done(t) /\ call[t].mine # None /\ call[t].method \in Verbs)
            => /\ Len(call[t].handlers) = 1
               /\ conns[call[t].mine].closes = 1

\* C1, amended: every connection that send opens for a method of the verb table
\* is used by exactly one handler invocation; it has been closed, once, by the
\* time send completes exactly when send returns a value (retr returning a
\* Response or None); when an exception leaves send (SystemExit of list, stor
\* and nlst, or an error of retr that is no OSError) it is left open.
C1_ClosedWhenSendReturns ==
    \A t \in Callers :
        (Done(t) /\ call[t].mine # None /\ call[t].method \in Verbs)
            => /\ Len(call[t].handlers) = 1
               /\ conns[call[t].mine].fetches <= 1
               /\ conns[call[t].mine].closes = (IF Returned(t) THEN 1 ELSE 0)

C1_Witness ==
    \E t, u \in Callers :
        /\ Returned(t) /\ call[t].method = "RETR" /\ conns[call[t].mine].closes = 1
        /\ Done(u) /\ call[u].outcome = "SystemExit" /\ call[u].mine # None
        /\ conns[call[u].mine].closes = 0

\* C2: when the fetch of a RETR or GET raises an OS/IO-class error, send returns
\* None instead of raising and the connection of the call is closed exactly
\* once; when send returns a Response the connection is closed exactly once too.
C2_OSErrorYieldsNone ==
    \A t \in Callers :
        /\ (Done(t) /\ call[t].method \in {"RETR", "GET"} /\ call[t].getfo = "OSError")
            => /\ call[t].outcome = "returned"
               /\ call[t].result = NoResponse
               /\ call[t].closed = call[t].mine
               /\ conns[call[t].mine].closes = 1
        /\ (Returned(t) /\ call[t].result # NoResponse)
            => /\ call[t].closed = call[t].mine
               /\ conns[call[t].mine].closes = 1

C2_Witness ==
    \E t \in Callers :
        /\ Done(t) /\ call[t].method = "GET" /\ call[t].getfo = "OSError"
        /\ call[t].result = NoResponse /\ call[t].warns = 1
        /\ conns[call[t].mine].closes = 1

\* What the response of a successful retrieval looks like for caller t.
RetrievalResponse(t) ==
    /\ call[t].result.id = "built"
    /\ call[t].result.status_code = <<226>>
    /\ call[t].result.encoding = None
    /\ call[t].result.request = t
    /\ call[t].result.url = call[t].url
    /\ call[t].result.raw = "data"
    /\ call[t].data.buf = call[t].fetchedBytes
    /\ call[t].data.pos = 0

\* C5, as stated: whenever send with RETR or GET hands a Response to the caller,
\* it has status code 226, encoding None, the originating request and its URL,
\* and its payload holds all fetched bytes, positioned at offset zero.
C5_EveryResponse ==
    \A t \in Callers :
        (Returned(t) /\ call[t].method \in {"RETR", "GET"} /\ call[t].result # NoResponse)
            => RetrievalResponse(t)

\* C5, amended: the same, provided the request's 'response' hooks hand back the
\* response they were given and leave its payload stream alone (in particular
\* when none is registered); a hook may replace the response or read the stream.
C5_ResponseWithPassiveHooks ==
    \A t \in Callers :
        (/\ Returned(t) /\ call[t].method \in {"RETR", "GET"} /\ call[t].result # NoResponse
         /\ call[t].hooks \in {"none", "keep"})
            => RetrievalResponse(t)

C5_Witness ==
    \E t \in Callers :
        /\ Returned(t) /\ call[t].method = "RETR" /\ call[t].hooks = "none"
        /\ call[t].result # NoResponse /\ call[t].result.status_code = <<226>>
        /\ Len(call[t].data.buf) = MaxFileLen /\ call[t].data.pos = 0

\* The path the handler is to receive for a URL path.
ExpectedForward(url) == IF url # <<>> /\ url[1] = "/" THEN Drop1(url) ELSE url

\* C6: for every URL path, the empty one included, send forwards to the handler
\* the path with exactly one leading '/' removed, or unchanged when there is
\* none.  (A call whose connection the session layer refuses reaches no handler.)
C6_PathForwarded ==
    \A t \in Callers :
        (Done(t) /\ call[t].method \in Verbs /\ call[t].outcome # "ConnectionError")
            => /\ Len(call[t].handlers) = 1
               /\ call[t].forwarded = <<ExpectedForward(call[t].url)>>

\* C7: send with STOR, LIST or NLST never returns a value: it always ends in
\* SystemExit("<VERB> not implemented yet"), and fetches nothing.  (A call
\* whose connection the session layer refuses ends in that error.)
C7_StubsTerminate ==
    \A t \in Callers :
        (Done(t) /\ call[t].method \in {"STOR", "LIST", "NLST"}
                 /\ call[t].outcome # "ConnectionError")
            => /\ call[t].outcome = "SystemExit"
               /\ call[t].message = <<call[t].method, "not implemented yet">>
               /\ call[t].result = NoResponse
               /\ call[t].fetched = None

\* C8: send with a method that is no key of the verb table propagates KeyError,
\* invokes no handler and returns nothing, and looks the method up only after
\* the connection has been opened.  (As above for a refused connection.)
C8_UnknownMethodKeyError ==
    \A t \in Callers :
        (Done(t) /\ call[t].method \notin Verbs /\ call[t].outcome # "ConnectionError")
            => /\ call[t].outcome = "KeyError"
               /\ call[t].handlers = <<>>
               /\ call[t].result = NoResponse
               /\ call[t].mine # None

\* Caller t has its adapter instance to itself.
OwnAdapter(t) == \A u \in Callers \ {t} : adapterOf[u] # adapterOf[t]

\* C9: when each concurrent caller uses its own adapter instance, every call
\* fetches from and closes only the connection it opened itself (so no
\* connection is closed twice or used after it was closed).
C9_OwnAdapterIsolated ==
    \A t \in Callers :
        OwnAdapter(t)
            => /\ call[t].fetched \in {None, call[t].mine}
               /\ call[t].closed \in {None, call[t].mine}
               /\ conns[t].closes <= 1
               /\ conns[t].staleFetches = 0
               /\ Returned(t) => conns[t].closes = 1

\* C9, the race: two RETR/GET calls on one adapter instance, one of which
\* fetched from and closed the other's connection, which ends closed twice
\* while the first call's own connection is never closed.
C9_SharedAdapterRace ==
    \E t, u \in Callers :
        /\ t # u /\ adapterOf[t] = adapterOf[u]
        /\ call[t].method \in {"RETR", "GET"} /\ call[u].method \in {"RETR", "GET"}
        /\ Returned(t) /\ Returned(u)
        /\ call[t].fetched = u /\ call[t].closed = u
        /\ conns[u].closes = 2
        /\ conns[t].opened /\ conns[t].closes = 0

-----------------------------------------------------------------------------
(* Properties of build_response.                                           *)

IsPrefix(p, q) == Len(p) <= Len(q) /\ p = SubSeq(q, 1, Len(p))

\* C10: the payload stream is repositioned to offset zero after the status code
\* has been resolved and before the hooks are dispatched, the hooks are
\* dispatched once, and the caller gets what hook dispatch returned; when the
\* status code cannot be resolved there is neither a seek nor a hook dispatch.
C10_SeekBeforeHooks ==
    \A t \in Callers :
        /\ \/ IsPrefix(call[t].trace, <<"new", "status", "seek", "hook">>)
           \/ call[t].trace = <<"new", "status_raised">>
        /\ call[t].hookSaw # <<>>
            => call[t].hookSaw[1].pos = 0 /\ call[t].hookSaw[1].status_code # <<>>
        /\ (Returned(t) /\ call[t].caller = "direct")
            => /\ call[t].trace = <<"new", "status", "seek", "hook">>
               /\ call[t].result = call[t].hooked
               /\ call[t].result =
                     DispatchHook(call[t].hooks, call[t].response,
                                  SeekStart(call[t].data)).value
        /\ (Done(t) /\ get_status_code_from_code_response(call[t].code).kind # "ok"
                    /\ call[t].caller = "direct")
            => /\ call[t].trace = <<"new", "status_raised">>
               /\ call[t].outcome =
                     get_status_code_from_code_response(call[t].code).kind
               /\ call[t].hookSaw = <<>>

C10_Witness ==
    \E t \in Callers :
        /\ Returned(t) /\ call[t].caller = "direct"
        /\ call[t].hooks = "replace" /\ call[t].result = OtherResponse
        /\ call[t].code = MultiLineConflict /\ call[t].warnings = 1
        /\ call[t].response.status_code = <<226>>
        /\ Len(call[t].data.buf) > 0 /\ call[t].hookSaw[1].pos = 0

-----------------------------------------------------------------------------
(* Properties of get_status_code_from_code_response, stated on the text    *)
(* itself: positions i..j of the last non-empty line, a..b of its token.   *)

LastLineSpans(text) ==
    {s \in (1..Len(text)) \X (1..Len(text)) :
        /\ s[1] <= s[2]
        /\ \A k \in s[1]..s[2] : text[k] # "\n"
        /\ s[1] = 1 \/ text[s[1] - 1] = "\n"
        /\ \A k \in (s[2] + 1)..Len(text) : text[k] = "\n"}

LeadingTokens(text) ==
    {SubSeq(text, a, b) : <<a, b>> \in
        {w \in (1..Len(text)) \X (1..Len(text)) :
            \E s \in LastLineSpans(text) :
                /\ s[1] <= w[1] /\ w[1] <= w[2] /\ w[2] <= s[2]
                /\ \A k \in s[1]..(w[1] - 1) : IsSpace(text[k])
                /\ \A k \in w[1]..w[2] : ~IsSpace(text[k])
                /\ w[2] = s[2] \/ IsSpace(text[w[2] + 1])}}

\* The last non-empty line begins with a token that int() accepts.
LastLineHasCode(text) == \E tok \in LeadingTokens(text) : IsIntLiteral(tok)

\* The first three characters are accepted by int().
PrefixHasCode(text) == IsIntLiteral(Take(text, 3))

Extracted == ext.kind # "pending"

\* C3: when the last non-empty line starts with an integer token and the first
\* three characters parse as an integer, the extractor returns the integer of
\* that token; it logs exactly one warning when the two integers differ, and
\* none when they agree.
C3_LastLineCodeReturned ==
    (Extracted /\ LastLineHasCode(code) /\ PrefixHasCode(code))
        => \A tok \in LeadingTokens(code) :
              /\ ext.kind = "ok"
              /\ ext.value = IntValue(tok)
              /\ ext.warnings = (IF IntValue(tok) # IntValue(Take(code, 3)) THEN 1 ELSE 0)

C3_Witness ==
    /\ Extracted /\ code = MultiLineConflict
    /\ ext = [kind |-> "ok", value |-> 226, warnings |-> 1]

\* C4, as stated: the extractor fails, returning no value, whenever the last
\* non-empty line does not begin with a token parseable as an integer, and
\* whenever the text is shorter than three characters.
C4_FailsOnShortText ==
    (Extracted /\ (~LastLineHasCode(code) \/ Len(code) < 3))
        => ext.kind \in {"ValueError", "IndexError"}

\* C4, amended: the extractor fails, returning no value, exactly when the last
\* non-empty line does not begin with a token parseable as an integer (the
\* empty text has no such line) or the first three characters of the text do
\* not parse as an integer: IndexError when there is no token at all,
\* ValueError otherwise.  A text shorter than three characters does not fail
\* for its length: an all-digit text of one or two characters returns its value.
C4_FailsOnUnparsableText ==
    Extracted =>
        /\ (ext.kind # "ok") <=> (~LastLineHasCode(code) \/ ~PrefixHasCode(code))
        /\ (ext.kind # "ok") =>
              ext.kind = (IF LeadingTokens(code) = {} THEN "IndexError" ELSE "ValueError")
        /\ (code # <<>> /\ Len(code) < 3 /\ \A k \in 1..Len(code) : IsDigit(code[k]))
              => ext = [kind |-> "ok", value |-> IntValue(code), warnings |-> 0]

C4_Witness ==
    /\ Extracted /\ code = <<"2", "6">>
    /\ ext = [kind |-> "ok", value |-> 26, warnings |-> 0]

=============================================================================
